---------------------------- MODULE Spec2Model ----------------------------
(***************************************************************************)
(* Model of kicad-mcp's circuit graph (utils/graph_analysis.py) and of the *)
(* graph cache in front of it (tools/graph_tools.py).                      *)
(*                                                                         *)
(* The specifications of the module:                                       *)
(*   SpecCache  get_data, run to completion, against a mutable schematic   *)
(*              file system                                                *)
(*   SpecRace   get_data step by step, its file reads interleaved with     *)
(*              external writes                                            *)
(*   SpecGraph  a CircuitGraph built from a bounded netlist, queried by    *)
(*              find_path and get_neighborhood                             *)
(*   SpecAny    a CircuitGraph built from an arbitrary netlist, queried by *)
(*              all four query methods                                     *)
(*   SpecProject get_data with the content of the graphs it builds, the    *)
(*              power symbols of the project's sheets included             *)
(*   SpecHarvest get_powerSymbols over the symbol instances of a project   *)
(*   SpecLoops  find_path and get_neighborhood, one iteration of their     *)
(*              while loop per step                                        *)
(***************************************************************************)
EXTENDS Integers, Sequences, FiniteSets, TLC

VARIABLES
    files,          \* schematic path -> raw bytes of the file on disk
    project_cache,  \* graph_tools.project_cache: cache_key -> entry
    heap,           \* the CircuitGraph instances built so far: id -> content built from
    providerCalls,  \* number of NetlistParser runs so far
    lastCall,       \* what the last get_data call saw and did
    prevCalls,      \* cache_key -> the latest completed get_data call on that key
    touched,        \* schematic files written since the last get_data call on them
    inFlight,       \* the get_data call that is between two of its file reads
    graph,          \* the CircuitGraph under query (SpecGraph)
    result          \* the last query on graph and what it returned

vars == <<files, project_cache, heap, providerCalls, lastCall, prevCalls,
          touched, inFlight, graph, result>>

cacheVars == <<files, project_cache, heap, providerCalls, lastCall, prevCalls,
               touched, inFlight>>
graphVars == <<graph, result>>

None == "None"

\* f with key k bound to v (a dict assignment d[k] = v)
Put(f, k, v) == [x \in (DOMAIN f) \cup {k} |-> IF x = k THEN v ELSE f[x]]

(***************************************************************************)
(* Graph cache: tools/graph_tools.py                                       *)
(***************************************************************************)

\* Bounds of the cache model
MaxProviderCalls == 2  \* NetlistParser runs (and so graph builds) in one run
NumContents == 1       \* a schematic file holds one of the contents 0..NumContents

Contents == 0..NumContents

\* Paths are sequences of characters. ":" is legal in a path, so two
\* different (project, schematic) pairs can format to one cache key.
ProjectPaths == { <<"a">>, <<"a", ":", "b">> }
SchematicPaths == { <<"c">>, <<"b", ":", "c">> }

\* cache_key = f"{project_path}:{schematic_path}"
CacheKey(project_path, schematic_path) ==
    project_path \o <<":">> \o schematic_path

\* hashlib.sha256(bytes).hexdigest(): a digest, not the bytes; collision
\* resistance is modelled as injectivity.
hash_file(fs, path) == <<"sha256", fs[path]>>

\* NetlistParser.export_netlist + structure_data: the netlist is a function
\* of what the schematic file holds when kicad-cli reads it.
structure_data(fs, path) == <<"netlist", fs[path]>>

\* get_project_files(project_path)["schematic"]: the schematic sheets of
\* the project, here every schematic file (a root sheet and a sub-sheet).
get_project_files(project_path) == SchematicPaths

\* The Value of the power-library symbol instances of a sheet with these
\* bytes: none in content 0, one value per other content.
PowerValues == << "GND", "+5V", "+3V3" >>
SheetPowerValues(bytes) == IF bytes = 0 THEN {} ELSE { PowerValues[bytes] }

\* CircuitGraph.get_powerSymbols as get_data's build runs it: the values
\* harvested from all sheets of the project as they are on disk.
get_powerSymbols(fs, project_path) ==
    UNION { SheetPowerValues(fs[sheet]) : sheet \in get_project_files(project_path) }

\* The condition of the early return of get_data.
CacheHitNever(cache, key, current_hash) == FALSE
CacheHitAnyEntry(cache, key, current_hash) == key \in DOMAIN cache

CacheHit(cache, key, current_hash) ==
    /\ key \in DOMAIN cache
    /\ cache[key].hash = current_hash

\* no get_data call is between two of its statements
Idle == [ pc |-> "idle" ]

\* An external tool rewrites a schematic file (the bytes may be the same).
WriteFile(s, c) ==
    /\ files' = [files EXCEPT ![s] = c]
    /\ touched' = touched \cup {s}
    /\ inFlight' = IF inFlight.pc # "idle" /\ inFlight.schematic = s
                   THEN [inFlight EXCEPT !.written = TRUE] ELSE inFlight
    /\ UNCHANGED <<project_cache, heap, providerCalls, lastCall, prevCalls>>
    /\ UNCHANGED graphVars

\* parse_netlist(self.netlist), the first statement of structure_data:
\* after a failed export self.netlist is still None (export_netlist catches
\* and prints every exception), and parsing None raises.
ParseNeverRaises(providerOk) == FALSE

ParseRaises(providerOk) == ~providerOk

NoEntry == [ graph |-> 0, structured_data |-> None, hash |-> None ]
NoCall == [ graph |-> 0, bytes |-> 0, outcome |-> "none" ]

\* get_data(project_path, schematic_path), run to completion.
\* providerOk = FALSE: kicad-cli is missing or fails; export_netlist swallows
\* the error, netlist stays None and structure_data raises.
get_data(project_path, schematic_path, providerOk) ==
    LET cache_key    == CacheKey(project_path, schematic_path)
        current_hash == hash_file(files, schematic_path)
        hadEntry     == cache_key \in DOMAIN project_cache
        provider     == IF CacheHit(project_cache, cache_key, current_hash)
                        THEN "unused"
                        ELSE IF providerOk THEN "ok" ELSE "failed"
        call(outcome, g) ==
            [ project |-> project_path, schematic |-> schematic_path,
              key |-> cache_key, bytes |-> files[schematic_path],
              outcome |-> outcome, graph |-> g, provider |-> provider,
              hadEntry |-> hadEntry,
              before |-> IF hadEntry THEN project_cache[cache_key] ELSE NoEntry,
              prev |-> IF cache_key \in DOMAIN prevCalls
                       THEN prevCalls[cache_key] ELSE NoCall,
              rewritten |-> schematic_path \in touched,
              providerBefore |-> providerCalls, heapBefore |-> DOMAIN heap,
              cacheBefore |-> project_cache ]
        done(outcome, g) ==
            /\ lastCall' = call(outcome, g)
            /\ prevCalls' = Put(prevCalls, cache_key,
                                [ graph |-> g, bytes |-> files[schematic_path],
                                  outcome |-> outcome ])
            /\ touched' = touched \ {schematic_path}
            /\ UNCHANGED <<files, inFlight>>
            /\ UNCHANGED graphVars
    IN
    IF CacheHit(project_cache, cache_key, current_hash)
    THEN \* line 34: return cached['graph'], cached['structured_data']
         /\ done("hit", project_cache[cache_key].graph)
         /\ UNCHANGED <<project_cache, heap, providerCalls>>
    ELSE IF ParseRaises(providerOk)
    THEN \* line 40 raises out of get_data: lines 41-54 do not run
         /\ providerCalls < MaxProviderCalls
         /\ providerCalls' = providerCalls + 1
         /\ done("raise", 0)
         /\ UNCHANGED <<project_cache, heap>>
    ELSE \* lines 39-54: parse, build, store, return
         LET id == Cardinality(DOMAIN heap) + 1
             sd == structure_data(files, schematic_path)
         IN
         /\ providerCalls < MaxProviderCalls
         /\ providerCalls' = providerCalls + 1
         /\ heap' = Put(heap, id, [ netlist |-> sd, project |-> project_path ])
         /\ project_cache' = Put(project_cache, cache_key,
                                 [ graph |-> id, structured_data |-> sd,
                                   hash |-> current_hash ])
         /\ done("miss", id)

NoGraph == [ power_symbols |-> {} ]
NoResult == [ op |-> "none" ]

InitCache ==
    /\ files \in [SchematicPaths -> Contents]
    /\ project_cache = << >>
    /\ heap = << >>
    /\ providerCalls = 0
    /\ lastCall = [ outcome |-> "none" ]
    /\ prevCalls = << >>
    /\ touched = {}
    /\ inFlight = Idle
    /\ graph = NoGraph
    /\ result = NoResult

NextCache ==
    \/ \E s \in SchematicPaths, c \in Contents : WriteFile(s, c)
    \/ \E p \in ProjectPaths, s \in SchematicPaths, ok \in BOOLEAN :
          get_data(p, s, ok)

SpecCache == InitCache /\ [][NextCache]_vars

(***************************************************************************)
(* Claims about the cache (checked under SpecCache)                        *)
(***************************************************************************)

C2_ChangedBytesRebuild ==
    ( /\ lastCall.outcome # "none"
      /\ lastCall.hadEntry
      /\ lastCall.before.hash # <<"sha256", lastCall.bytes>> )
    => /\ providerCalls = lastCall.providerBefore + 1
       /\ lastCall.outcome # "hit"
       /\ lastCall.outcome = "miss" =>
            /\ lastCall.graph \notin lastCall.heapBefore
            /\ lastCall.graph # lastCall.before.graph
            /\ lastCall.graph \in DOMAIN heap
            /\ heap[lastCall.graph].netlist = <<"netlist", lastCall.bytes>>
            /\ project_cache[lastCall.key].graph = lastCall.graph
            /\ project_cache[lastCall.key].hash = <<"sha256", lastCall.bytes>>
            /\ project_cache[lastCall.key].structured_data
                    = <<"netlist", lastCall.bytes>>

\* A call that found a stale entry and replaced it.
C2_Witness ==
    /\ lastCall.outcome = "miss"
    /\ lastCall.hadEntry
    /\ lastCall.before.hash # <<"sha256", lastCall.bytes>>
    /\ project_cache[lastCall.key].graph # lastCall.before.graph

NoHash == << >>

\* get_data lines 25-36: the key, the lookup and, for a key the cache holds,
\* the hash of the file as it is now; returns the cached graph on a hit.
Enter(project_path, schematic_path) ==
    /\ inFlight = Idle
    /\ LET cache_key    == CacheKey(project_path, schematic_path)
           current_hash == hash_file(files, schematic_path)
       IN IF CacheHit(project_cache, cache_key, current_hash)
          THEN /\ lastCall' =
                    [ outcome |-> "hit", key |-> cache_key,
                      schematic |-> schematic_path,
                      graph |-> project_cache[cache_key].graph,
                      quiet |-> TRUE,
                      fresh |-> heap[project_cache[cache_key].graph].netlist
                                  = structure_data(files, schematic_path) ]
               /\ UNCHANGED <<inFlight, providerCalls>>
          ELSE /\ providerCalls < MaxProviderCalls
               /\ providerCalls' = providerCalls + 1
               /\ inFlight' =
                    [ pc |-> "export", project |-> project_path,
                      schematic |-> schematic_path, key |-> cache_key,
                      current_hash |-> IF cache_key \in DOMAIN project_cache
                                       THEN current_hash ELSE NoHash,
                      structured_data |-> None, written |-> FALSE ]
               /\ UNCHANGED lastCall
    /\ UNCHANGED <<files, project_cache, heap, prevCalls, touched>>
    /\ UNCHANGED graphVars

\* lines 38-40: kicad-cli reads the schematic and the netlist is parsed
ExportNetlist ==
    /\ inFlight.pc = "export"
    /\ inFlight' = [ inFlight EXCEPT
                       !.pc = "store",
                       !.structured_data =
                           structure_data(files, inFlight.schematic) ]
    /\ UNCHANGED <<files, project_cache, heap, providerCalls, lastCall,
                   prevCalls, touched>>
    /\ UNCHANGED graphVars

\* lines 41-54: the graph is built, the file is hashed now unless it was
\* hashed on entry, and the entry is stored
Store ==
    /\ inFlight.pc = "store"
    /\ LET id == Cardinality(DOMAIN heap) + 1
           current_hash == IF inFlight.current_hash = NoHash
                           THEN hash_file(files, inFlight.schematic)
                           ELSE inFlight.current_hash
       IN /\ heap' = Put(heap, id, [ netlist |-> inFlight.structured_data,
                                     project |-> inFlight.project ])
          /\ project_cache' =
                Put(project_cache, inFlight.key,
                    [ graph |-> id,
                      structured_data |-> inFlight.structured_data,
                      hash |-> current_hash ])
          /\ lastCall' =
                [ outcome |-> "miss", key |-> inFlight.key,
                  schematic |-> inFlight.schematic, graph |-> id,
                  quiet |-> ~inFlight.written,
                  fresh |-> inFlight.structured_data
                              = structure_data(files, inFlight.schematic) ]
    /\ inFlight' = Idle
    /\ UNCHANGED <<files, providerCalls, prevCalls, touched>>
    /\ UNCHANGED graphVars

NextRace ==
    \/ \E s \in SchematicPaths, c \in Contents : WriteFile(s, c)
    \/ \E p \in ProjectPaths, s \in SchematicPaths : Enter(p, s)
    \/ ExportNetlist
    \/ Store

SpecRace == InitCache /\ [][NextRace]_vars

\* the entry's hash is the hash of the bytes its graph was built from
HashOfBuild(entry) ==
    \E s \in SchematicPaths, fs \in [SchematicPaths -> Contents] :
        /\ heap[entry.graph].netlist = structure_data(fs, s)
        /\ entry.hash = hash_file(fs, s)

\* C25: whatever the interleaving of get_data with writes to the schematic
\* file, every cache entry's hash is the hash of the file content its graph
\* was built from, and a call during which the file was not written
\* returns a graph built from the content the file has.
C25_HashMatchesBuild ==
    /\ \A key \in DOMAIN project_cache : HashOfBuild(project_cache[key])
    /\ (lastCall.outcome # "none" /\ lastCall.quiet) => lastCall.fresh

(***************************************************************************)
(* get_data with the content of the graphs it builds                       *)
(***************************************************************************)

\* What CircuitGraph(structured_data, project_path) holds when it is built
\* from the files as they are: the netlist of the schematic and the power
\* symbols of the project's sheets.
Build(fs, project_path, schematic_path) ==
    [ netlist       |-> structure_data(fs, schematic_path),
      project       |-> project_path,
      power_symbols |-> get_powerSymbols(fs, project_path) ]

\* get_data(project_path, schematic_path), run to completion, keeping the
\* content of the graph it builds and what was on disk when it returned.
GetGraph(project_path, schematic_path) ==
    LET cache_key    == CacheKey(project_path, schematic_path)
        current_hash == hash_file(files, schematic_path)
        returned(outcome, g) ==
            lastCall' = [ outcome |-> outcome, project |-> project_path,
                          schematic |-> schematic_path, key |-> cache_key,
                          graph |-> g, disk |-> files ]
    IN
    /\ IF CacheHit(project_cache, cache_key, current_hash)
       THEN /\ returned("hit", project_cache[cache_key].graph)
            /\ UNCHANGED <<project_cache, heap, providerCalls>>
       ELSE LET id == Cardinality(DOMAIN heap) + 1
                g  == Build(files, project_path, schematic_path)
            IN /\ providerCalls < MaxProviderCalls
               /\ providerCalls' = providerCalls + 1
               /\ heap' = Put(heap, id, g)
               /\ project_cache' =
                     Put(project_cache, cache_key,
                         [ graph |-> id, structured_data |-> g.netlist,
                           hash |-> current_hash ])
               /\ returned("miss", id)
    /\ UNCHANGED <<files, prevCalls, touched, inFlight>>
    /\ UNCHANGED graphVars

NextProject ==
    \/ \E s \in SchematicPaths, c \in Contents : WriteFile(s, c)
    \/ \E p \in ProjectPaths, s \in SchematicPaths : GetGraph(p, s)

SpecProject == InitCache /\ [][NextProject]_vars

\* C26: the graph a cache hit returns equals, in the netlist it was built
\* from (nodes, edges, adjacency) and in its power-symbol set, the graph a
\* fresh build would produce from the files on disk at that moment, also
\* after writes to other sheets of the project.
C26_HitEqualsFreshBuild ==
    lastCall.outcome = "hit"
    => LET cached == heap[lastCall.graph]
           fresh  == Build(lastCall.disk, lastCall.project, lastCall.schematic)
       IN /\ cached.netlist = fresh.netlist
          /\ cached.power_symbols = fresh.power_symbols

(***************************************************************************)
(* Circuit graph: utils/graph_analysis.py                                  *)
(***************************************************************************)

\* Bounds of the graph model
MaxDepth == 3    \* find_path is called with max_depth in 0..MaxDepth
MaxRadius == 2   \* get_neighborhood is called with radius in 0..MaxRadius

\* The component references and net names of the netlists explored.
CompRefs == {"R1", "R2", "U1"}
NetNames == <<"Net1", "GND", "vcc_3v3">>
Absent == "X9"   \* a name that is in no netlist

Conn(c, p, t) == [component |-> c, pin |-> p, electrical_type |-> t]

\* The pin connection lists a net is drawn from (structure_data's net_pins).
NetShapes ==
    { << >>,
      << Conn("R1", "2", "passive"), Conn("R2", "1", "passive") >>,
      << Conn("R2", "2", "passive"), Conn("U1", "1", "passive") >>,
      << Conn("R1", "1", "passive"), Conn("U1", "11", "input") >>,
      << Conn("R1", "1", "power_in"), Conn("U1", "11", "power_out"),
         Conn("R2", "1", "passive") >>,
      << Conn("U1", "4", "power_in"), Conn("R2", "1", "passive"),
         Conn("R2", "1", "passive") >> }

\* What get_powerSymbols harvests from the project's schematic sheets.
HarvestedSets == { {}, {"GND"} }

Range(s) == { s[i] : i \in DOMAIN s }

\* load_powerSymbols: the harvested set with a project path, else empty.
load_powerSymbols(project_path, harvested) ==
    IF project_path # None THEN harvested ELSE {}

\* _build_graph, second loop body: one pin connection of net net_name.
AddConnectionOnce(g, net_name, conn) ==
    LET comp_ref == conn.component
        edge_key == <<comp_ref, net_name>>
        adjC     == IF comp_ref \in DOMAIN g.adjacency_list
                    THEN g.adjacency_list[comp_ref] ELSE {}
        adj1     == Put(g.adjacency_list, comp_ref, adjC \cup {net_name})
        adj2     == Put(adj1, net_name, adj1[net_name] \cup {comp_ref})
    IN [ g EXCEPT !.adjacency_list = adj2,
                  !.edges = Put(g.edges, edge_key, [pins |-> <<conn.pin>>]) ]

AddConnection(g, net_name, conn) ==
    LET comp_ref == conn.component
        edge_key == <<comp_ref, net_name>>
        adjC     == IF comp_ref \in DOMAIN g.adjacency_list
                    THEN g.adjacency_list[comp_ref] ELSE {}  \* defaultdict(set)
        adj1     == Put(g.adjacency_list, comp_ref, adjC \cup {net_name})
        adj2     == Put(adj1, net_name, adj1[net_name] \cup {comp_ref})
        pins     == IF edge_key \in DOMAIN g.edges
                    THEN g.edges[edge_key].pins ELSE << >>
    IN [ g EXCEPT !.adjacency_list = adj2,
                  !.edges = Put(g.edges, edge_key,
                                [pins |-> Append(pins, conn.pin)]) ]

RECURSIVE AddConnections(_, _, _)
AddConnections(g, net_name, connections) ==
    IF connections = << >> THEN g
    ELSE AddConnections(AddConnection(g, net_name, Head(connections)),
                        net_name, Tail(connections))

\* _build_graph, second loop: the nets in the order of the nets dict.
RECURSIVE AddNets(_, _)
AddNets(g, nets) ==
    IF nets = << >> THEN g
    ELSE LET net == Head(nets)
             g1  == [ g EXCEPT
                      !.nodes = Put(g.nodes, net.name, "net"),
                      !.adjacency_list = Put(g.adjacency_list, net.name, {}) ]
         IN AddNets(AddConnections(g1, net.name, net.connections), Tail(nets))

\* CircuitGraph.__init__ with _build_graph: nodes maps a key to its "type".
CircuitGraph(netlist_data, project_path, harvested) ==
    AddNets([ nodes          |-> [c \in netlist_data.components |-> "component"],
              adjacency_list |-> [c \in netlist_data.components |-> {}],
              edges          |-> << >>,
              power_symbols  |-> load_powerSymbols(project_path, harvested),
              netlist_data   |-> netlist_data ],
            netlist_data.nets)

\* netlist_data['nets'].get(net_name, [])
NetConnections(netlist_data, net_name) ==
    LET hits == { i \in DOMAIN netlist_data.nets :
                    netlist_data.nets[i].name = net_name }
    IN IF hits = {} THEN << >>
       ELSE netlist_data.nets[CHOOSE i \in hits : TRUE].connections

\* get_pin_electrical_type: the type of the first connection of the net that
\* has this component and this pin number.
get_pin_electrical_type(g, component_ref, pin_num, net_name) ==
    LET conns == NetConnections(g.netlist_data, net_name)
        hits  == { i \in DOMAIN conns :
                    /\ conns[i].component = component_ref
                    /\ conns[i].pin = pin_num }
    IN IF hits = {} THEN "unspecified"
       ELSE conns[CHOOSE i \in hits : \A j \in hits : i <= j].electrical_type

PowerPinTypes == {"power_in", "power_out"}

\* is_power_edge: "True", "False", or the exception it raises.
is_power_edge(g, from_node, to_node) ==
    IF from_node \notin DOMAIN g.nodes \/ to_node \notin DOMAIN g.nodes
    THEN "KeyError"
    ELSE IF g.nodes[from_node] = g.nodes[to_node]
    THEN "UnboundLocalError"    \* neither branch binds component_ref
    ELSE LET component_ref == IF g.nodes[from_node] = "component"
                              THEN from_node ELSE to_node
             net_name      == IF g.nodes[from_node] = "component"
                              THEN to_node ELSE from_node
             edge_key      == <<component_ref, net_name>>
         IN IF edge_key \notin DOMAIN g.edges THEN "False"
            ELSE IF \E i \in DOMAIN g.edges[edge_key].pins :
                       get_pin_electrical_type(g, component_ref,
                           g.edges[edge_key].pins[i], net_name)
                         \in PowerPinTypes
                 THEN "True" ELSE "False"

\* The orders in which a "for neighbor in <set>" loop can visit a set.
Perms(S) ==
    { s \in [1..Cardinality(S) -> S] : \A i, j \in DOMAIN s : i # j => s[i] # s[j] }

IsComponent(g, n) == g.nodes[n] = "component"

ComponentsOf(g, path) ==
    LET F[i \in 0..Len(path)] ==
            IF i = 0 THEN << >>
            ELSE IF IsComponent(g, path[i]) THEN Append(F[i - 1], path[i])
                 ELSE F[i - 1]
    IN F[Len(path)]

\* The power-net test both traversals make on a neighbor (lines 78-79 and
\* 152-154): a net whose name is in the harvested power-symbol set.
is_power_net(g, n) == g.nodes[n] = "net" /\ n \in g.power_symbols

\* The ignore_power checks of both traversals on one neighbor: "skip"
\* (continue), "keep", or the exception raised while checking.
PowerCheck(g, current, neighbor, ignore_power) ==
    IF neighbor \notin DOMAIN g.nodes THEN "KeyError"  \* self.nodes[neighbor]
    ELSE IF ~ignore_power THEN "keep"
    ELSE IF is_power_net(g, neighbor) THEN "skip"
    ELSE LET pe == is_power_edge(g, current, neighbor)
         IN IF pe = "True" THEN "skip"
            ELSE IF pe = "False" THEN "keep"
            ELSE pe

\* "x in self.adjacency_list", the test at the head of both traversals
InAdjacencyAlways(g, n) == TRUE

InAdjacency(g, n) == n \in DOMAIN g.adjacency_list

\* self.adjacency_list[key]: adjacency_list is a defaultdict(set), so the
\* read of a key it does not hold adds that key with an empty set.  The
\* graph after the read.
AdjacencyRead(g, key) ==
    IF key \in DOMAIN g.adjacency_list THEN g
    ELSE [ g EXCEPT !.adjacency_list = Put(g.adjacency_list, key, {}) ]

\* queue.popleft(): <<the entry taken, the rest of the queue>>
PopRight(queue) == << queue[Len(queue)], SubSeq(queue, 1, Len(queue) - 1) >>

PopLeft(queue) == << Head(queue), Tail(queue) >>

\* The max_depth test at the head of find_path's loop.
DepthReached(comp_count, max_depth) == comp_count >= max_depth

NoPath == [ status |-> "ok", success |-> FALSE, path |-> << >>,
            path_length |-> 0, component_details |-> << >> ]
Raised(e) == [ status |-> e, success |-> FALSE, path |-> << >>,
               path_length |-> 0, component_details |-> << >> ]
Found(g, path, n) ==
    IF \E i \in DOMAIN path : path[i] \notin DOMAIN g.nodes
    THEN Raised("KeyError")     \* self.nodes[node] in component_details
    ELSE [ status |-> "ok", success |-> TRUE, path |-> path, path_length |-> n,
           component_details |-> ComponentsOf(g, path) ]

\* new_path = path + [neighbor]
ExtendPathFromStart(path, neighbor) == << path[1], neighbor >>

ExtendPath(path, neighbor) == Append(path, neighbor)

\* find_path, the while loop (lines 63-119): every result the loop can
\* produce from this queue, over the orders its for loops can take, each
\* with the graph the call leaves behind.
RECURSIVE FindPathLoop(_, _, _, _, _, _)
FindPathLoop(g0, end, ignore_power, max_depth, queue, visited) ==
    IF queue = << >> THEN { [ ret |-> NoPath, g |-> g0 ] }
    ELSE
    LET popped     == PopLeft(queue)
        current    == popped[1][1]
        path       == popped[1][2]
        comp_count == popped[1][3]
        rest       == popped[2]
    IN
    IF DepthReached(comp_count, max_depth)
    THEN FindPathLoop(g0, end, ignore_power, max_depth, rest, visited)
    ELSE
    LET g       == AdjacencyRead(g0, current)
        fresh   == g.adjacency_list[current] \ visited
        check(n) == PowerCheck(g, current, n, ignore_power)
        raising == { n \in fresh : check(n) \notin {"skip", "keep"} }
        kept    == { n \in fresh : check(n) = "keep" }
        count(n) == IF IsComponent(g, n) THEN comp_count + 1 ELSE comp_count
        entry(n) == << n, ExtendPath(path, n), count(n) >>
    IN
    \* a neighbor whose check raises ends the call when the loop reaches it
    { [ ret |-> Raised(check(n)), g |-> g ] : n \in raising }
    \cup
    (IF end \in kept
     THEN { [ ret |-> Found(g, ExtendPath(path, end), count(end)), g |-> g ] }
     ELSE IF raising # {} THEN {}
     ELSE UNION { FindPathLoop(g, end, ignore_power, max_depth,
                               rest \o [i \in DOMAIN order |-> entry(order[i])],
                               visited \cup kept)
                  : order \in Perms(kept) })

\* component_count of the start == end return (lines 48-51)
SelfPathCountZero(g, start) == 0

SelfPathCount(g, start) == IF IsComponent(g, start) THEN 1 ELSE 0

\* find_path(start, end, ignore_power, max_depth): the set of outcomes,
\* each the returned record (or the exception) and the graph afterwards.
find_path(g, start, end, ignore_power, max_depth) ==
    IF ~InAdjacency(g, start) \/ ~InAdjacency(g, end)
    THEN { [ ret |-> NoPath, g |-> g ] }
    ELSE IF start = end
    THEN IF start \notin DOMAIN g.nodes
         THEN { [ ret |-> Raised("KeyError"), g |-> g ] }
         ELSE { [ ret |-> Found(g, <<start>>, SelfPathCount(g, start)),
                  g |-> g ] }
    ELSE FindPathLoop(g, end, ignore_power, max_depth,
                      << <<start, <<start>>, 0>> >>, {start})

\* The radius test at the head of get_neighborhood's loop.
RadiusReachedStrict(currentDepth, radius) == currentDepth > radius

RadiusReached(currentDepth, radius) == currentDepth >= radius

NoNeighborhood(component) ==
    [ status |-> "ok", success |-> FALSE, start |-> component, radius |-> 0,
      neighborhood |-> << >> ]
NeighborhoodRaised(component, e) ==
    [ status |-> e, success |-> FALSE, start |-> component, radius |-> 0,
      neighborhood |-> << >> ]

\* get_neighborhood, the while loop (lines 139-171): every allNeighbors list
\* the loop can end with, or the exception it raises.
RECURSIVE NeighborhoodLoop(_, _, _, _, _, _)
NeighborhoodLoop(g0, ignore_Power, radius, queue, visited, allNeighbors) ==
    IF queue = << >>
    THEN { [ status |-> "ok", list |-> allNeighbors, g |-> g0 ] }
    ELSE
    LET popped       == PopLeft(queue)
        currentNode  == popped[1][1]
        currentDepth == popped[1][2]
        rest         == popped[2]
    IN
    IF RadiusReached(currentDepth, radius)
    THEN NeighborhoodLoop(g0, ignore_Power, radius, rest, visited, allNeighbors)
    ELSE
    LET g        == AdjacencyRead(g0, currentNode)
        fresh    == g.adjacency_list[currentNode] \ visited
        check(n) == PowerCheck(g, currentNode, n, ignore_Power)
        raising  == { n \in fresh : check(n) \notin {"skip", "keep"} }
        kept     == { n \in fresh : check(n) = "keep" }
        entry(n) == IF IsComponent(g, n) THEN << n, currentDepth + 1 >>
                    ELSE << n, currentDepth >>
        listed(n) == \/ IsComponent(g, n)
                     \/ (~ignore_Power /\ n \in g.power_symbols)
        members(order) ==
            SelectSeq([i \in DOMAIN order |-> << currentDepth + 1, order[i] >>],
                      LAMBDA m : listed(m[2]))
    IN
    IF raising # {}
    THEN { [ status |-> check(n), list |-> << >>, g |-> g ] : n \in raising }
    ELSE UNION { NeighborhoodLoop(g, ignore_Power, radius,
                     rest \o [i \in DOMAIN order |-> entry(order[i])],
                     visited \cup kept,
                     allNeighbors \o members(order))
                 : order \in Perms(kept) }

\* get_neighborhood(component, ignore_Power, radius): the set of outcomes,
\* each the returned record (or the exception) and the graph afterwards.
get_neighborhood(g, component, ignore_Power, radius) ==
    IF ~InAdjacency(g, component)
    THEN { [ ret |-> NoNeighborhood(component), g |-> g ] }
    ELSE { [ ret |-> IF r.status = "ok"
                     THEN [ status |-> "ok", success |-> TRUE,
                            start |-> component, radius |-> radius,
                            neighborhood |-> r.list ]
                     ELSE NeighborhoodRaised(component, r.status),
             g   |-> r.g ]
           : r \in NeighborhoodLoop(g, ignore_Power, radius,
                                    << <<component, 0>> >>, {component}, << >>) }

(***************************************************************************)
(* Queries on one graph                                                    *)
(***************************************************************************)

Netlists ==
    { [ components |-> CompRefs,
        nets |-> [ i \in DOMAIN NetNames |->
                     [ name |-> NetNames[i], connections |-> shape[i] ] ] ]
      : shape \in [DOMAIN NetNames -> NetShapes] }

NodeArgs == CompRefs \cup Range(NetNames) \cup {Absent}

\* A query leaves the graph as it is, so the queries made after another
\* query see the graph of the initial state: one query per behaviour.
FindPath(start, end, ignore_power, max_depth) ==
    /\ result = NoResult
    /\ \E r \in find_path(graph, start, end, ignore_power, max_depth) :
          /\ result' = [ op |-> "find_path", start |-> start, end |-> end,
                      ignore_power |-> ignore_power, max_depth |-> max_depth,
                      ret |-> r.ret ]
          /\ graph' = r.g
    /\ UNCHANGED cacheVars

GetNeighborhood(component, ignore_Power, radius) ==
    /\ result = NoResult
    /\ \E r \in get_neighborhood(graph, component, ignore_Power, radius) :
          /\ result' = [ op |-> "get_neighborhood", component |-> component,
                      ignore_power |-> ignore_Power, radius |-> radius,
                      ret |-> r.ret ]
          /\ graph' = r.g
    /\ UNCHANGED cacheVars

InitGraph ==
    /\ \E netlist_data \in Netlists, project_path \in {None, <<"a">>},
          harvested \in HarvestedSets :
          /\ project_path = None => harvested = {}
          /\ graph = CircuitGraph(netlist_data, project_path, harvested)
    /\ result = NoResult
    /\ files = [s \in SchematicPaths |-> 0]
    /\ project_cache = << >>
    /\ heap = << >>
    /\ providerCalls = 0
    /\ lastCall = [ outcome |-> "none" ]
    /\ prevCalls = << >>
    /\ touched = {}
    /\ inFlight = Idle

NextGraph ==
    \/ \E start \in NodeArgs, end \in NodeArgs, ignore_power \in BOOLEAN,
          max_depth \in 0..MaxDepth :
          FindPath(start, end, ignore_power, max_depth)
    \/ \E component \in NodeArgs, ignore_Power \in BOOLEAN,
          radius \in 0..MaxRadius :
          GetNeighborhood(component, ignore_Power, radius)

SpecGraph == InitGraph /\ [][NextGraph]_vars

(***************************************************************************)
(* The two traversal loops, one iteration of the while loop per step       *)
(***************************************************************************)

\* A max_depth or radius that no count of a path in these graphs reaches.
Unlimited == Cardinality(CompRefs \cup Range(NetNames)) + 1

\* visited.add(neighbor), for the neighbors one iteration appends
VisitedAddNever(visited, kept) == visited
VisitedAdd(visited, kept) == visited \cup kept

\* A call in its loop. queue holds every entry appended so far, in order,
\* and popped counts the popleft calls: the deque is what lies behind the
\* first popped entries.
Looping(call, entry) ==
    [ op |-> call.op, call |-> call, pc |-> "loop", queue |-> <<entry>>,
      popped |-> 0, visited |-> {entry[1]}, allNeighbors |-> << >>,
      ret |-> [ status |-> "running" ] ]
Returned(r, ret) == [ r EXCEPT !.pc = "done", !.ret = ret ]
Deque(r) == SubSeq(r.queue, r.popped + 1, Len(r.queue))

\* find_path up to its loop (lines 39-61)
CallFindPath(start, end, ignore_power, max_depth) ==
    LET call == [ op |-> "find_path", start |-> start, end |-> end,
                  ignore_power |-> ignore_power, max_depth |-> max_depth ]
    IN /\ result = NoResult
       /\ IF ~InAdjacency(graph, start) \/ ~InAdjacency(graph, end)
             \/ start = end
          THEN \E r \in find_path(graph, start, end, ignore_power, max_depth) :
                  result' = [ op |-> call.op, call |-> call, pc |-> "done",
                              queue |-> << >>, popped |-> 0, visited |-> {},
                              allNeighbors |-> << >>, ret |-> r.ret ]
          ELSE result' = Looping(call, << start, <<start>>, 0 >>)
       /\ UNCHANGED graph
       /\ UNCHANGED cacheVars

\* find_path, one iteration of "while queue" (lines 63-112), or the return
\* after the loop (lines 114-119)
FindPathStep ==
    /\ result.op = "find_path" /\ result.pc = "loop"
    /\ IF Deque(result) = << >>
       THEN result' = Returned(result, NoPath) /\ UNCHANGED graph
       ELSE
       LET call       == result.call
           current    == PopLeft(Deque(result))[1][1]
           path       == PopLeft(Deque(result))[1][2]
           comp_count == PopLeft(Deque(result))[1][3]
           taken      == [ result EXCEPT !.popped = @ + 1 ]
       IN
       IF DepthReached(comp_count, call.max_depth)
       THEN result' = taken /\ UNCHANGED graph
       ELSE
       LET g       == AdjacencyRead(graph, current)
           fresh   == g.adjacency_list[current] \ result.visited
           check(n) == PowerCheck(g, current, n, call.ignore_power)
           raising == { n \in fresh : check(n) \notin {"skip", "keep"} }
           kept    == { n \in fresh : check(n) = "keep" }
           count(n) == IF IsComponent(g, n) THEN comp_count + 1 ELSE comp_count
           entry(n) == << n, ExtendPath(path, n), count(n) >>
       IN /\ graph' = g
          /\ \/ \E n \in raising : result' = Returned(taken, Raised(check(n)))
             \/ /\ call.end \in kept
                /\ result' = Returned(taken, Found(g, ExtendPath(path, call.end),
                                                   count(call.end)))
             \/ /\ call.end \notin kept /\ raising = {}
                /\ \E order \in Perms(kept) :
                      result' =
                        [ taken EXCEPT
                          !.queue = @ \o [i \in DOMAIN order |-> entry(order[i])],
                          !.visited = VisitedAdd(@, kept) ]
    /\ UNCHANGED cacheVars

\* get_neighborhood up to its loop (lines 122-137)
CallGetNeighborhood(component, ignore_Power, radius) ==
    LET call == [ op |-> "get_neighborhood", component |-> component,
                  ignore_power |-> ignore_Power, radius |-> radius ]
    IN /\ result = NoResult
       /\ IF ~InAdjacency(graph, component)
          THEN result' = [ op |-> call.op, call |-> call, pc |-> "done",
                           queue |-> << >>, popped |-> 0, visited |-> {},
                           allNeighbors |-> << >>,
                           ret |-> NoNeighborhood(component) ]
          ELSE result' = Looping(call, << component, 0 >>)
       /\ UNCHANGED graph
       /\ UNCHANGED cacheVars

\* get_neighborhood, one iteration of "while queue" (lines 139-171), or the
\* return after the loop (lines 174-186)
GetNeighborhoodStep ==
    /\ result.op = "get_neighborhood" /\ result.pc = "loop"
    /\ IF Deque(result) = << >>
       THEN /\ result' = Returned(result,
                            [ status |-> "ok", success |-> TRUE,
                              start |-> result.call.component,
                              radius |-> result.call.radius,
                              neighborhood |-> result.allNeighbors ])
            /\ UNCHANGED graph
       ELSE
       LET call         == result.call
           currentNode  == PopLeft(Deque(result))[1][1]
           currentDepth == PopLeft(Deque(result))[1][2]
           taken        == [ result EXCEPT !.popped = @ + 1 ]
       IN
       IF RadiusReached(currentDepth, call.radius)
       THEN result' = taken /\ UNCHANGED graph
       ELSE
       LET g        == AdjacencyRead(graph, currentNode)
           fresh    == g.adjacency_list[currentNode] \ result.visited
           check(n) == PowerCheck(g, currentNode, n, call.ignore_power)
           raising  == { n \in fresh : check(n) \notin {"skip", "keep"} }
           kept     == { n \in fresh : check(n) = "keep" }
           entry(n) == IF IsComponent(g, n) THEN << n, currentDepth + 1 >>
                       ELSE << n, currentDepth >>
           listed(n) == \/ IsComponent(g, n)
                        \/ (~call.ignore_power /\ n \in g.power_symbols)
           members(order) ==
               SelectSeq([i \in DOMAIN order |-> << currentDepth + 1, order[i] >>],
                         LAMBDA m : listed(m[2]))
       IN /\ graph' = g
          /\ \/ \E n \in raising :
                   result' = Returned(taken,
                                NeighborhoodRaised(call.component, check(n)))
             \/ /\ raising = {}
                /\ \E order \in Perms(kept) :
                      result' =
                        [ taken EXCEPT
                          !.queue = @ \o [i \in DOMAIN order |-> entry(order[i])],
                          !.visited = VisitedAdd(@, kept),
                          !.allNeighbors = @ \o members(order) ]
    /\ UNCHANGED cacheVars

NextLoops ==
    \/ \E start \in NodeArgs, end \in NodeArgs, ignore_power \in BOOLEAN,
          max_depth \in {MaxDepth, Unlimited} :
          CallFindPath(start, end, ignore_power, max_depth)
    \/ FindPathStep
    \/ \E component \in NodeArgs, ignore_Power \in BOOLEAN,
          radius \in {MaxRadius, Unlimited} :
          CallGetNeighborhood(component, ignore_Power, radius)
    \/ GetNeighborhoodStep

SpecLoops == InitGraph /\ [][NextLoops]_vars

(***************************************************************************)
(* Graphs of arbitrary netlists, and all four queries                      *)
(***************************************************************************)

\* A component reference that connections use but the components map lacks.
Undeclared == "U9"

DeclaredRefs == {"R1", "R2"}

\* The keys of the nets dict in its order; "R1" is also a component.
AnyNetNames == << "Net1", "R1", "GND" >>

NotInDict == << Conn("", "", "") >>

\* The connection list of a net: the net may be missing from the dict, have
\* no connection, one, the same one twice, one pin number with two
\* electrical types, two components, or an undeclared component.
AnyNetShapes ==
    { NotInDict,
      << >>,
      << Conn("R1", "1", "passive") >>,
      << Conn("R1", "1", "passive"), Conn("R1", "1", "passive") >>,
      << Conn("R1", "1", "passive"), Conn("R1", "1", "power_in") >>,
      << Conn("R1", "1", "passive"), Conn("R2", "1", "power_in") >>,
      << Conn("R2", "2", "passive"), Conn(Undeclared, "1", "passive") >> }

AnyNetlists ==
    { [ components |-> DeclaredRefs,
        nets |-> SelectSeq([ i \in DOMAIN AnyNetNames |->
                               [ name |-> AnyNetNames[i],
                                 connections |-> shape[i] ] ],
                           LAMBDA net : net.connections # NotInDict) ]
      : shape \in [DOMAIN AnyNetNames -> AnyNetShapes] }

AnyArgs == DeclaredRefs \cup Range(AnyNetNames) \cup {Undeclared, Absent}

PinArgs == {"1", "2"}

IsPowerEdge(from_node, to_node) ==
    /\ result = NoResult
    /\ result' = [ op |-> "is_power_edge", from_node |-> from_node,
                   to_node |-> to_node,
                   ret |-> is_power_edge(graph, from_node, to_node) ]
    /\ UNCHANGED graph
    /\ UNCHANGED cacheVars

GetPinElectricalType(component_ref, pin_num, net_name) ==
    /\ result = NoResult
    /\ result' = [ op |-> "get_pin_electrical_type",
                   component_ref |-> component_ref, pin_num |-> pin_num,
                   net_name |-> net_name,
                   ret |-> get_pin_electrical_type(graph, component_ref,
                                                   pin_num, net_name) ]
    /\ UNCHANGED graph
    /\ UNCHANGED cacheVars

InitAny ==
    /\ \E netlist_data \in AnyNetlists, project_path \in {None, <<"a">>},
          harvested \in HarvestedSets :
          /\ project_path = None => harvested = {}
          /\ graph = CircuitGraph(netlist_data, project_path, harvested)
    /\ result = NoResult
    /\ files = [s \in SchematicPaths |-> 0]
    /\ project_cache = << >>
    /\ heap = << >>
    /\ providerCalls = 0
    /\ lastCall = [ outcome |-> "none" ]
    /\ prevCalls = << >>
    /\ touched = {}
    /\ inFlight = Idle

NextAny ==
    \/ \E start \in AnyArgs, end \in AnyArgs, ignore_power \in BOOLEAN,
          max_depth \in 0..MaxDepth :
          FindPath(start, end, ignore_power, max_depth)
    \/ \E component \in AnyArgs, ignore_Power \in BOOLEAN,
          radius \in 0..MaxRadius :
          GetNeighborhood(component, ignore_Power, radius)
    \/ \E from_node \in AnyArgs, to_node \in AnyArgs :
          IsPowerEdge(from_node, to_node)
    \/ \E component_ref \in AnyArgs, pin_num \in PinArgs, net_name \in AnyArgs :
          GetPinElectricalType(component_ref, pin_num, net_name)

SpecAny == InitAny /\ [][NextAny]_vars

(***************************************************************************)
(* Power-symbol harvesting: CircuitGraph.get_powerSymbols over the         *)
(* symbol instances of the project's sheets                                *)
(***************************************************************************)

\* A symbol or an instance without a property of key "Value"; a local
\* variable of get_powerSymbols that no assignment has bound yet.
NoProperty == "<no Value property>"
Unbound == "<unbound>"

\* A symbol instance of a sheet: its libId, whether sch.libSymbols holds a
\* symbol of its entryName, the Value of that library symbol and its own.
Inst(libId, libsym, lib_value, value) ==
    [ libId |-> libId, libsym |-> libsym, lib_value |-> lib_value,
      value |-> value ]

SymbolInstances ==
    { Inst("power", "found", lv, v) :
        lv \in { NoProperty, "GND", "+5V" },
        v \in { NoProperty, None, "GND", "+3V3" } }
    \cup { Inst("power", None, NoProperty, "GND"),
           Inst("Device", "found", "R", "+5V") }

\* sch.schematicSymbols of a sheet, and the sheets of a project
SheetSymbols ==
    { << >> } \cup { <<i>> : i \in SymbolInstances }
    \cup { <<i, j>> : i \in SymbolInstances, j \in SymbolInstances }
ProjectSheets ==
    { <<s>> : s \in SheetSymbols }
    \cup { <<s, u>> : s \in SheetSymbols, u \in SheetSymbols }

\* for prop in properties: if prop.key == "Value": variable = prop.value
AssignValue(variable, prop_value) ==
    IF prop_value # NoProperty THEN prop_value ELSE variable

\* The body of "for inst in sch.schematicSymbols". st holds the locals
\* parent_value and child_value, the set power_symbols and whether a read
\* of an unbound local has raised.
HarvestInstance(st, inst) ==
    IF st.status # "ok" \/ inst.libId # "power" \/ inst.libsym = None
    THEN st
    ELSE LET parent_value == AssignValue(st.parent_value, inst.lib_value)
             child_value  == AssignValue(st.child_value, inst.value)
             bound == [ st EXCEPT !.parent_value = parent_value,
                                  !.child_value = child_value ]
             final_value == IF child_value # None THEN child_value
                            ELSE parent_value
         IN IF child_value = Unbound \/ final_value = Unbound
            THEN [ bound EXCEPT !.status = "UnboundLocalError" ]
            ELSE IF final_value # None /\ final_value # ""
                 THEN [ bound EXCEPT !.power_symbols = @ \cup {final_value} ]
                 ELSE bound

RECURSIVE HarvestSheet(_, _)
HarvestSheet(st, symbols) ==
    IF symbols = << >> THEN st
    ELSE HarvestSheet(HarvestInstance(st, Head(symbols)), Tail(symbols))

RECURSIVE HarvestSheets(_, _)
HarvestSheets(st, sheets) ==
    IF sheets = << >> THEN st
    ELSE HarvestSheets(HarvestSheet(st, Head(sheets)), Tail(sheets))

\* get_powerSymbols from "power_symbols = set()" on: the set returned, or
\* the exception raised.
HarvestPowerSymbols(sheets) ==
    LET st == HarvestSheets([ parent_value |-> Unbound, child_value |-> Unbound,
                              power_symbols |-> {}, status |-> "ok" ], sheets)
    IN [ status |-> st.status,
         power_symbols |-> IF st.status = "ok" THEN st.power_symbols ELSE {} ]

\* CircuitGraph.__init__ up to load_powerSymbols, for the project whose
\* sheets the state holds: self.power_symbols after loading.
LoadPowerSymbols ==
    LET sheets == result.sheets
        ret    == HarvestPowerSymbols(sheets)
    IN /\ result.op = "project"
       /\ result' = [ op |-> "load_powerSymbols", sheets |-> sheets,
                      ret |-> ret ]
       /\ graph' = [ power_symbols |->
                        load_powerSymbols(<<"a">>, ret.power_symbols) ]
       /\ UNCHANGED cacheVars

InitHarvest ==
    /\ graph = NoGraph
    /\ \E sheets \in ProjectSheets :
          result = [ op |-> "project", sheets |-> sheets ]
    /\ files = [s \in SchematicPaths |-> 0]
    /\ project_cache = << >>
    /\ heap = << >>
    /\ providerCalls = 0
    /\ lastCall = [ outcome |-> "none" ]
    /\ prevCalls = << >>
    /\ touched = {}
    /\ inFlight = Idle

NextHarvest == LoadPowerSymbols

SpecHarvest == InitHarvest /\ [][NextHarvest]_vars

(***************************************************************************)
(* Claims about find_path and get_neighborhood (checked under SpecGraph)   *)
(***************************************************************************)

\* The claims' own reading of the netlist, independent of the traversal code.
Nets(g) == { g.netlist_data.nets[i].name : i \in DOMAIN g.netlist_data.nets }
Comps(g) == g.netlist_data.components

\* component c has a pin connection on net n
Connected(g, c, n) ==
    \E i \in DOMAIN g.netlist_data.nets :
        /\ g.netlist_data.nets[i].name = n
        /\ \E k \in DOMAIN g.netlist_data.nets[i].connections :
              g.netlist_data.nets[i].connections[k].component = c

\* component c has a power_in or power_out pin connection on net n
HasPowerPin(g, c, n) ==
    \E i \in DOMAIN g.netlist_data.nets :
        /\ g.netlist_data.nets[i].name = n
        /\ \E k \in DOMAIN g.netlist_data.nets[i].connections :
              /\ g.netlist_data.nets[i].connections[k].component = c
              /\ g.netlist_data.nets[i].connections[k].electrical_type
                    \in {"power_in", "power_out"}

Linked(g, a, b) ==
    \/ a \in Comps(g) /\ b \in Nets(g) /\ Connected(g, a, b)
    \/ b \in Comps(g) /\ a \in Nets(g) /\ Connected(g, b, a)

PowerLink(g, a, b) ==
    \/ a \in Comps(g) /\ b \in Nets(g) /\ HasPowerPin(g, a, b)
    \/ b \in Comps(g) /\ a \in Nets(g) /\ HasPowerPin(g, b, a)

\* a step a -> b a traversal may take when power is ignored or not
Usable(g, ignore_power, a, b) ==
    /\ Linked(g, a, b)
    /\ ignore_power =>
         /\ ~(b \in Nets(g) /\ b \in g.power_symbols)
         /\ ~PowerLink(g, a, b)

\* the simple paths that extend path to end by usable steps
RECURSIVE Extensions(_, _, _, _)
Extensions(g, ignore_power, path, end) ==
    IF path[Len(path)] = end THEN { path }
    ELSE UNION { Extensions(g, ignore_power, Append(path, n), end)
                 : n \in { m \in (Comps(g) \cup Nets(g)) \ Range(path) :
                             Usable(g, ignore_power, path[Len(path)], m) } }

AdmissiblePaths(g, ignore_power, start, end) ==
    Extensions(g, ignore_power, <<start>>, end)

NumComps(g, path) == Cardinality({ i \in DOMAIN path : path[i] \in Comps(g) })

IsFindPath == result.op = "find_path"
IsNeighborhood == result.op = "get_neighborhood"
InGraph(n) == n \in Comps(graph) \cup Nets(graph)

C4_PathLengthCountsComponents ==
    (IsFindPath /\ result.ret.success)
    => /\ result.ret.path_length = NumComps(graph, result.ret.path)
       /\ result.ret.path_length = Len(result.ret.component_details)

\* C5: find_path with max_depth = N returns no successful result with more
\* than N components, neither as path_length nor as nodes on the path.
C5_DepthBoundsComponents ==
    (IsFindPath /\ result.ret.success)
    => /\ result.ret.path_length <= result.max_depth
       /\ NumComps(graph, result.ret.path) <= result.max_depth

\* C6: when every admissible path from start to end has more than max_depth
\* components, find_path succeeds with a truncated path: it starts at start,
\* holds max_depth components, reports path_length = max_depth and does not
\* contain end.
C6_TruncatedPath ==
    ( /\ IsFindPath
      /\ InGraph(result.start) /\ InGraph(result.end)
      /\ result.start # result.end
      /\ AdmissiblePaths(graph, result.ignore_power,
                         result.start, result.end) # {}
      /\ \A p \in AdmissiblePaths(graph, result.ignore_power,
                                  result.start, result.end) :
            NumComps(graph, p) > result.max_depth )
    => /\ result.ret.success
       /\ result.ret.path_length = result.max_depth
       /\ NumComps(graph, result.ret.path) = result.max_depth
       /\ result.ret.path[1] = result.start
       /\ result.end \notin Range(result.ret.path)

\* The classification the claims give for power nets, on the characters
\* of a name.
NameChars ==
    [ n \in Range(NetNames) |->
        CASE n = "Net1"    -> <<"N", "e", "t", "1">>
          [] n = "GND"     -> <<"G", "N", "D">>
          [] n = "vcc_3v3" -> <<"v", "c", "c", "_", "3", "v", "3">> ]

UpperChar(c) ==
    CASE c = "e" -> "E" [] c = "t" -> "T" [] c = "v" -> "V" [] c = "c" -> "C"
      [] OTHER -> c

Upper(s) == [i \in DOMAIN s |-> UpperChar(s[i])]

Contains(s, sub) ==
    \E i \in 0..(Len(s) - Len(sub)) : SubSeq(s, i + 1, i + Len(sub)) = sub

StaticPowerNames == {"GND"}

PowerSubstrings ==
    { <<"V", "C", "C">>, <<"V", "D", "D">>, <<"G", "N", "D">>,
      <<"+", "3", "V", "3">>, <<"+", "5", "V">>, <<"V", "B", "U", "S">>,
      <<"P", "W", "R">> }

ClaimedPowerNet(g, n) ==
    /\ n \in Nets(g)
    /\ \/ n \in StaticPowerNames
       \/ n \in g.power_symbols
       \/ \E sub \in PowerSubstrings : Contains(Upper(NameChars[n]), sub)

\* no two consecutive nodes of path are joined by a power pin
NoPowerLinkOn(g, path) ==
    \A i \in 1..(Len(path) - 1) : ~PowerLink(g, path[i], path[i + 1])

\* C7: with ignore_power=true, whatever the start and end nodes, no net on
\* a returned path is a power net and no consecutive pair of the path is a
\* power edge.
C7_NoPowerOnPath ==
    (IsFindPath /\ result.ret.success /\ result.ignore_power)
    => /\ \A i \in DOMAIN result.ret.path :
             ~ClaimedPowerNet(graph, result.ret.path[i])
       /\ NoPowerLinkOn(graph, result.ret.path)

\* the components a traversal from x can reach without passing a net in
\* avoid, by steps usable under ignore_power, in at most r component hops
RECURSIVE ReachWithin(_, _, _, _, _)
ReachWithin(g, ignore_power, avoid, x, r) ==
    IF r = 0 THEN { x }
    ELSE LET inner == ReachWithin(g, ignore_power, avoid, x, r - 1)
         IN inner \cup
            { c \in Comps(g) :
                \E b \in inner, n \in Nets(g) \ avoid :
                    /\ Usable(g, ignore_power, b, n)
                    /\ Usable(g, ignore_power, n, c) }

Members(ret) ==
    { ret.neighborhood[i][2] : i \in DOMAIN ret.neighborhood }

\* C8: the net "GND" counts as a power net also when no power symbol was
\* harvested: with ignore_power=true find_path returns no path that runs
\* through GND, and get_neighborhood lists no component that is reachable
\* only through GND.
C8_GndIsPowerNet ==
    (graph.power_symbols = {} /\ result.op # "none" /\ result.ignore_power
     /\ result.ret.success)
    => /\ IsFindPath =>
             \A i \in 2..Len(result.ret.path) : result.ret.path[i] # "GND"
       /\ (IsNeighborhood /\ result.component \in Comps(graph)) =>
             Members(result.ret) \subseteq
                ReachWithin(graph, TRUE, {"GND"}, result.component,
                            result.radius)

\* C9: when a traversal ignores power, the nets it prunes as power nets
\* are exactly the nets whose name is a static power-symbol name, or is in
\* the harvested set, or contains a power substring once upper-cased.
C9_PowerNetClassification ==
    (result.op # "none" /\ result.ignore_power)
    => \A n \in Nets(graph) :
          is_power_net(graph, n) <=> ClaimedPowerNet(graph, n)

\* the component-hop distance from component x: the fewest component nodes
\* after x on an admissible path (0 when there is none)
HopDistance(g, ignore_power, x, c) ==
    LET ps == AdmissiblePaths(g, ignore_power, x, c)
    IN IF ps = {} THEN 0
       ELSE (CHOOSE k \in 1..Cardinality(Comps(g)) :
               /\ \E p \in ps : NumComps(g, p) = k
               /\ \A p \in ps : NumComps(g, p) >= k) - 1

ComponentMembers(g, ret) ==
    { ret.neighborhood[i][2] : i \in { j \in DOMAIN ret.neighborhood :
                                         ret.neighborhood[j][2] \in Comps(g) } }

NetsWithin(g, x, r) ==
    IF r = 0 THEN {}
    ELSE { n \in Nets(g) :
             \E b \in ReachWithin(g, FALSE, {}, x, r - 1) : Linked(g, b, n) }

NetMembers(g, ret) == Members(ret) \cap Nets(g)

\* C11: the nets listed by get_neighborhood are exactly the power nets
\* reached within the radius when ignore_power is false, and none when
\* ignore_power is true; a net that is not a power net is never listed.
C11_NetsListedArePowerNets ==
    (IsNeighborhood /\ result.component \in Comps(graph)
     /\ result.ret.success)
    => NetMembers(graph, result.ret)
         = { n \in NetsWithin(graph, result.component, result.radius) :
               ~result.ignore_power /\ ClaimedPowerNet(graph, n) }

\* the pin numbers of the connections of c on net n, in netlist order
PinsOn(g, c, n) ==
    LET conns == NetConnections(g.netlist_data, n)
        own   == SelectSeq(conns, LAMBDA conn : conn.component = c)
    IN [ i \in DOMAIN own |-> own[i].pin ]

\* C14: for every component c and net n the edge (c, n) exists exactly
\* when c has a pin connection on n; its pin list is the pin numbers of
\* those connections in input order, duplicates kept; and c and n are then
\* linked in the adjacency once (the neighbors being sets), however many
\* connections there are.
C14_EdgesArePinConnections ==
    /\ DOMAIN graph.edges
         = { <<c, n>> \in Comps(graph) \X Nets(graph) : Connected(graph, c, n) }
    /\ \A c \in Comps(graph), n \in Nets(graph) :
          Connected(graph, c, n) =>
             /\ graph.edges[<<c, n>>].pins = PinsOn(graph, c, n)
             /\ n \in graph.adjacency_list[c]
             /\ c \in graph.adjacency_list[n]

\* a graph with an edge of two equal pins next to a component that has
\* edges to two nets
C14_Witness ==
    /\ \E e \in DOMAIN graph.edges :
          /\ Len(graph.edges[e].pins) = 2
          /\ graph.edges[e].pins[1] = graph.edges[e].pins[2]
    /\ \E c \in Comps(graph) : Cardinality(graph.adjacency_list[c]) = 2

(***************************************************************************)
(* Claims about construction and the four queries                         *)
(***************************************************************************)

\* C12: every component reference of the components map is a component
\* node and every net name of the nets map is a net node, and each is a key
\* of the adjacency list, whatever the netlist.
C12_DeclaredAreNodes ==
    /\ \A c \in Comps(graph) :
          /\ c \in DOMAIN graph.nodes /\ graph.nodes[c] = "component"
          /\ c \in DOMAIN graph.adjacency_list
    /\ \A n \in Nets(graph) :
          /\ n \in DOMAIN graph.nodes /\ graph.nodes[n] = "net"
          /\ n \in DOMAIN graph.adjacency_list

\* C13: the adjacency of a constructed graph is symmetric, every neighbor
\* of a component node is a net node, and every neighbor of a net node is
\* a component node.
C13_SymmetricBipartite ==
    LET adj   == graph.adjacency_list
        nodes == graph.nodes
        other(kind) == IF kind = "component" THEN "net" ELSE "component"
    IN /\ \A a \in DOMAIN adj : \A b \in adj[a] :
             b \in DOMAIN adj /\ a \in adj[b]
       /\ \A a \in DOMAIN nodes \cap DOMAIN adj : \A b \in adj[a] :
             b \in DOMAIN nodes /\ nodes[b] = other(nodes[a])

\* C15: no call of find_path, get_neighborhood, is_power_edge or
\* get_pin_electrical_type, whatever its arguments, changes the nodes, the
\* edges, the adjacency list, the power-symbol set or the netlist data.
C15_QueriesChangeNothing == [][graph' = graph]_vars

\* a find_path call between two adjacency keys that read the adjacency of
\* every node it could reach and found no path
C15_Witness ==
    /\ result.op = "find_path" /\ result.start # result.end
    /\ result.start \in DOMAIN graph.adjacency_list
    /\ result.end \in DOMAIN graph.adjacency_list
    /\ graph.adjacency_list[result.start] # {}
    /\ result.max_depth = MaxDepth
    /\ result.ret.status = "ok" /\ ~result.ret.success

\* what a call leaves of a graph when it returned before any traversal:
\* the adjacency keys are still the declared components and nets
NothingTraversed(g) == DOMAIN g.adjacency_list = Comps(g) \cup Nets(g)

C17_TraversalsNeverRaise ==
    (IsFindPath \/ IsNeighborhood) => result.ret.status = "ok"

\* C18: a connection that names a component missing from the components
\* map is skipped by construction: every adjacency key is a declared
\* component or net, every neighbor is one, and no edge has the undeclared
\* component.
C18_UndeclaredSkipped ==
    /\ DOMAIN graph.adjacency_list \subseteq Comps(graph) \cup Nets(graph)
    /\ \A a \in DOMAIN graph.adjacency_list :
          graph.adjacency_list[a] \subseteq Comps(graph) \cup Nets(graph)
    /\ \A e \in DOMAIN graph.edges : e[1] \in Comps(graph)

\* C19: is_power_edge(a, b) returns false, and raises nothing, when a and
\* b are two component nodes or two net nodes.
C19_SameKindIsNotPowerEdge ==
    (/\ result.op = "is_power_edge"
     /\ result.from_node \in DOMAIN graph.nodes
     /\ result.to_node \in DOMAIN graph.nodes
     /\ graph.nodes[result.from_node] = graph.nodes[result.to_node])
    => result.ret = "False"

C22_PowerEdgeIffPowerPin ==
    (/\ result.op = "is_power_edge"
     /\ Comps(graph) \cap Nets(graph) = {}
     /\ \/ result.from_node \in Comps(graph) /\ result.to_node \in Nets(graph)
        \/ result.from_node \in Nets(graph) /\ result.to_node \in Comps(graph))
    => LET c == IF result.from_node \in Comps(graph)
                THEN result.from_node ELSE result.to_node
           n == IF result.from_node \in Comps(graph)
                THEN result.to_node ELSE result.from_node
       IN /\ result.ret \in {"True", "False"}
          /\ result.ret = "True" <=> HasPowerPin(graph, c, n)

\* C23: when an admissible path from start to end exists that has at most
\* max_depth component nodes, find_path returns success=true, whatever
\* kind of node start and end are; a result with success=false has no path
\* and path_length 0.
C23_PathWithinDepthIsFound ==
    (IsFindPath /\ InGraph(result.start) /\ InGraph(result.end))
    => /\ (\E p \in AdmissiblePaths(graph, result.ignore_power,
                                    result.start, result.end) :
              NumComps(graph, p) <= result.max_depth)
          => result.ret.success
       /\ ~result.ret.success =>
             /\ result.ret.status = "ok"
             /\ result.ret.path = << >> /\ result.ret.path_length = 0

Merged(g, n) == n \in Comps(g) /\ n \in Nets(g) /\ n \in DOMAIN g.nodes

\* C27: when a component reference and a net name are the same string, the
\* constructed graph has no single node under that name standing for both
\* (construction fails, or the two get distinct keys).
C27_CollisionNotMerged ==
    \A n \in Comps(graph) \cup Nets(graph) : ~Merged(graph, n)

\* The claim's reading of an instance: its own Value if it has one, else
\* the Value of its library symbol, if that has one.
Resolved(inst) ==
    IF inst.value \notin { NoProperty, None } THEN inst.value
    ELSE inst.lib_value
PowerInstances(sheets) ==
    { i \in UNION { Range(s) : s \in Range(sheets) } : i.libId = "power" }
ResolvedValues(insts) ==
    { Resolved(i) : i \in insts } \ { NoProperty, None }

\* C28: after loading, the power-symbol set of the graph is the set of the
\* resolved values of the power-library instances of all sheets: it holds
\* the resolved value of every instance that has a library symbol, and
\* nothing but resolved values of instances, whatever was processed before.
C28_PowerSymbolsAreResolvedValues ==
    result.op = "load_powerSymbols"
    => LET insts == PowerInstances(result.sheets)
       IN /\ result.ret.status = "ok"
          /\ ResolvedValues({ i \in insts : i.libsym # None })
                \subseteq graph.power_symbols
          /\ graph.power_symbols \subseteq ResolvedValues(insts)

\* C29: for two nodes of the graph, find_path from start to end succeeds
\* exactly when find_path from end to start does, with the same
\* ignore_power and max_depth, and both report the same path_length.
C29_FindPathSymmetric ==
    (IsFindPath /\ InGraph(result.start) /\ InGraph(result.end))
    => \A back \in find_path(graph, result.end, result.start,
                             result.ignore_power, result.max_depth) :
          /\ back.ret.success = result.ret.success
          /\ back.ret.path_length = result.ret.path_length

\* no node was appended to the queue of the call more than once
EnqueuedOnce(r) ==
    \A i \in DOMAIN r.queue, j \in DOMAIN r.queue :
        i # j => r.queue[i][1] # r.queue[j][1]
HasReturned == result.op # "none" /\ result.pc = "done"

\* C30: every find_path and get_neighborhood call terminates, whatever
\* max_depth or radius it was given, also one that no count reaches: no
\* node is appended to the queue more than once during the call, so the
\* queue never holds more entries than the graph has nodes; every
\* iteration takes one of them, and the call returns when none is left.
C30_TerminatesEnqueuingOnce ==
    result.op # "none"
    => /\ EnqueuedOnce(result)
       /\ result.popped <= Len(result.queue)
       /\ Len(result.queue) <= Cardinality(DOMAIN graph.nodes)

\* a call with an unlimited max_depth or radius that returned after it
\* had enqueued five nodes, one of them met again from a second neighbor
C30_Witness ==
    /\ HasReturned
    /\ \/ result.op = "find_path" /\ result.call.max_depth = Unlimited
       \/ result.op = "get_neighborhood" /\ result.call.radius = Unlimited
    /\ Len(result.queue) >= 5 /\ result.popped >= 4
    /\ \E n \in result.visited :
          Cardinality(graph.adjacency_list[n] \cap result.visited) >= 2

=============================================================================
